---- MODULE Spec2Model ----
(***************************************************************************)
(* Sidecar IPC: JSON Lines over the stdio of a spawned child process.      *)
(*                                                                         *)
(*   service  src/win32/sidecar_mock/ipc_mock_service.py                   *)
(*   client   src/sidecar_mock/e2e_client.py   (class SidecarClient)       *)
(*   harness  src/sidecar_mock/e2e_ipc.py      (raw line writer)           *)
(*                                                                         *)
(* The three pipes are modelled as the sequence of lines ever written to   *)
(* them plus the position of their reader.  A JSON value is a record       *)
(* tagged with its JSON type; dict.get(key) of a missing key and of a key  *)
(* holding null both give None, so a missing key is modelled as JNull.     *)
(* Time is counted in milliseconds and advances in steps of TickMs.        *)
(***************************************************************************)
EXTENDS Integers, Sequences, FiniteSets, TLC

(***************************************************************************)
(* Bounds of the model.                                                    *)
(***************************************************************************)
MaxLines == 2
TickMs == 1000
NCallers == 3
DefaultTimeoutMs == 3000

(***************************************************************************)
(* Program constants, in milliseconds.                                     *)
(***************************************************************************)
StopRequestTimeoutMs == 2000
StopWaitTimeoutMs == 2000
SIGKILL == 9

(***************************************************************************)
(* JSON values.                                                            *)
(***************************************************************************)
JNull == [t |-> "null"]
JStr(s) == [t |-> "str", s |-> s]
JInt(n) == [t |-> "int", n |-> n]
JBool(b) == [t |-> "bool", n |-> IF b THEN 1 ELSE 0]
JArr == [t |-> "array"]
JObj(f) == [t |-> "obj", f |-> f]

\* dict.get(key): the value, or None when the key is missing.
Get(obj, key) == IF key \in DOMAIN obj.f THEN obj.f[key] ELSE JNull

\* isinstance(v, str)
IsStr(v) == v.t = "str"

\* isinstance(v, int): bool is a subclass of int in Python.
IsInt(v) == v.t \in {"int", "bool"}

\* isinstance(v, dict)
IsDict(v) == v.t = "obj"

\* Optional[int]: None is the empty sequence, a value is a one-element one.
None == <<>>
Some(v) == <<v>>

Max(a, b) == IF a >= b THEN a ELSE b

(***************************************************************************)
(* Lines on the service's stdin.  strip() leaves nothing of a blank line;  *)
(* json.loads either raises ("garbage") or gives the JSON value.           *)
(***************************************************************************)
BlankLine == [raw |-> "blank"]
GarbageLine == [raw |-> "garbage"]
JsonLine(v) == [raw |-> "json", val |-> v]

VARIABLES
    stdin,          \* lines written to the service's stdin, oldest first
    stdin_closed,   \* the writing end of stdin has been closed
    svc_pos,        \* number of stdin lines the service has read
    svc_pc,         \* "NotStarted", "Running", "Sleeping" or "Exited"
    svc_job,        \* the translate request whose delay is being slept
    proc_status,    \* exit status of the process: None while it lives
    stdout,         \* response lines written to stdout, oldest first
    stdout_line,    \* for each stdout line, the stdin line it was written for
    stderr          \* lines written to stderr, oldest first

VARIABLES
    started,        \* SidecarClient._process is not None
    returncode,     \* SidecarClient._process.returncode
    pending,        \* SidecarClient._pending: request id -> future
    request_id_seq, \* SidecarClient._request_id
    reader_pc,      \* _read_stdout task: "none", "running", "done", "failed"
    rd_pos,         \* number of stdout lines _read_stdout has read
    pc,             \* per calling task: "idle" (its call not yet made),
                    \* "waiting", "stop_wait" or "done"
    call,           \* per calling task: the locals of its send_request/stop
    outcome         \* per calling task: how its call ended

svc_vars == <<stdin, stdin_closed, svc_pos, svc_pc, svc_job, proc_status,
              stdout, stdout_line, stderr>>

client_vars == <<started, returncode, pending, request_id_seq, reader_pc,
                 rd_pos, pc, call, outcome>>

vars == <<stdin, stdin_closed, svc_pos, svc_pc, svc_job, proc_status,
          stdout, stdout_line, stderr,
          started, returncode, pending, request_id_seq, reader_pc,
          rd_pos, pc, call, outcome>>

Callers == 1..NCallers

(***************************************************************************)
(* ipc_mock_service.py                                                     *)
(***************************************************************************)

\* log(): one JSON object on stderr.  The "ts" field holds the wall clock
\* and is left out; requestId is present only when request_id is not None.
log(level, msg, request_id) ==
    IF request_id = JNull
    THEN [level |-> level, msg |-> msg, subsystem |-> "sidecar"]
    ELSE [level |-> level, msg |-> msg, subsystem |-> "sidecar",
          requestId |-> request_id.s]

\* What the interpreter prints on stderr for an uncaught exception.
Traceback(exc) == [traceback |-> exc]

error_response(request_id, code, message) ==
    [id |-> request_id, error |-> [code |-> code, message |-> message]]

\* The response handle_health() writes.
handle_health(request_id) ==
    [id |-> request_id,
     result |-> [version |-> "0.0.1-mock", build |-> "dev",
                 capabilities |-> <<"health", "translate", "shutdown">>]]

\* translate_invalid() as it would be without the return after the first
\* error response: both checks report.
translate_invalid_both(request_id, params) ==
    LET text == Get(params, "text")
        to_lang == Get(params, "toLang")
    IN  (IF ~IsStr(text) \/ text.s = ""
         THEN <<error_response(request_id, "invalid_params",
                               "params.text must be a non-empty string")>>
         ELSE <<>>)
        \o
        (IF ~IsStr(to_lang) \/ to_lang.s = ""
         THEN <<error_response(request_id, "invalid_params",
                               "params.toLang must be a non-empty string")>>
         ELSE <<>>)

\* handle_translate(), argument checks: the error responses written, none
\* when the arguments are accepted.
translate_invalid(request_id, params) ==
    LET text == Get(params, "text")
        to_lang == Get(params, "toLang")
    IN  IF ~IsStr(text) \/ text.s = ""
        THEN <<error_response(request_id, "invalid_params",
                              "params.text must be a non-empty string")>>
        ELSE IF ~IsStr(to_lang) \/ to_lang.s = ""
        THEN <<error_response(request_id, "invalid_params",
                              "params.toLang must be a non-empty string")>>
        ELSE <<>>

\* handle_translate(), the time slept, in milliseconds.
translate_delay(params) ==
    LET delay_ms == Get(params, "delayMs")
    IN  IF IsInt(delay_ms) /\ delay_ms.n > 0 THEN delay_ms.n ELSE 0

\* translated() with its two arguments in each other's place.
translated_swapped(to_lang, text) == "[" \o text \o "] " \o to_lang

\* f"[{to_lang}] {text}"
translated(to_lang, text) == "[" \o to_lang \o "] " \o text

\* translate_result() as it would be if the response did not carry the id.
translate_result_no_id(request_id, params, elapsed_ms) ==
    [id |-> JNull,
     result |-> [translatedText |-> "[" \o Get(params, "toLang").s \o "] "
                                        \o Get(params, "text").s,
                 detectedLang |-> Get(params, "fromLang"),
                 engine |-> "mock",
                 timingMs |-> elapsed_ms]]

\* handle_translate(), the result response; elapsed_ms is the time measured
\* between entry and this point.
translate_result(request_id, params, elapsed_ms) ==
    [id |-> request_id,
     result |-> [translatedText |-> translated(Get(params, "toLang").s,
                                               Get(params, "text").s),
                 detectedLang |-> Get(params, "fromLang"),
                 engine |-> "mock",
                 timingMs |-> elapsed_ms]]

\* The effect of one pass through the body of main()'s loop: lines written
\* to stdout and to stderr, where the service is afterwards, the exit status
\* if the process ends, and the delayed translate request if it sleeps.
Continue(out, logs) ==
    [out |-> out, log |-> logs, pc |-> "Running", code |-> None, job |-> None]
\* Exit() as it would be if the process ended before stdout was flushed.
Exit_unflushed(code, out, logs) ==
    [out |-> <<>>, log |-> logs, pc |-> "Exited", code |-> Some(code),
     job |-> None]

Exit(code, out, logs) ==
    [out |-> out, log |-> logs, pc |-> "Exited", code |-> Some(code),
     job |-> None]
\* Sleep() as it would be if the delay ran in the background and main() went
\* on reading.
Sleep_background(request_id, params, logs) ==
    [out |-> <<>>, log |-> logs, pc |-> "Running", code |-> None,
     job |-> Some([request_id |-> request_id, params |-> params,
                   left |-> translate_delay(params)])]

\* handle_translate(), lines 80-83: time.sleep() blocks main() for the delay.
Sleep(request_id, params, logs) ==
    [out |-> <<>>, log |-> logs, pc |-> "Sleeping", code |-> None,
     job |-> Some([request_id |-> request_id, params |-> params,
                   left |-> translate_delay(params)])]

\* handle_invalid_json as it would be if the parse error were not caught.
handle_invalid_json_uncaught ==
    [out |-> <<>>, log |-> <<Traceback("JSONDecodeError")>>, pc |-> "Exited",
     code |-> Some(1), job |-> None]

\* main(), lines 110-113: json.loads() raised.
handle_invalid_json ==
    Continue(<<error_response(JNull, "invalid_json", "failed to parse json")>>,
             <<log("warn", "invalid json", JNull)>>)

\* handle_unknown() as it would be if an unknown method were answered with
\* an empty result.
handle_unknown_result(request_id, method, reqlog) ==
    [out |-> <<[id |-> request_id, result |-> [ok |-> FALSE]]>>,
     log |-> <<reqlog>>, pc |-> "Running", code |-> None, job |-> None]

\* main(), lines 146-147: no branch of the dispatch matches the method.
handle_unknown(request_id, method, reqlog) ==
    Continue(<<error_response(request_id, "method_not_found",
                              "unknown method: " \o method)>>,
             <<reqlog>>)

\* request_id as main() normalises it: None unless it is a string.
normalize_id(raw_id) == IF raw_id # JNull /\ ~IsStr(raw_id) THEN JNull ELSE raw_id

\* main(), lines 132-147: the request log and the dispatch on method.
dispatch(request_id, method, params) ==
    LET reqlog == log("info", "request: " \o method, request_id)
    IN  IF method = "health"
        THEN Continue(<<handle_health(request_id)>>, <<reqlog>>)
        ELSE IF method = "translate"
        THEN IF translate_invalid(request_id, params) # <<>>
             THEN Continue(translate_invalid(request_id, params), <<reqlog>>)
             ELSE IF translate_delay(params) > 0
             THEN Sleep(request_id, params, <<reqlog>>)
             ELSE Continue(<<translate_result(request_id, params, 0)>>,
                           <<reqlog>>)
        ELSE IF method = "crash"
        THEN Exit(2, <<>>,
                  <<reqlog, log("error", "crash requested", request_id)>>)
        ELSE IF method = "shutdown"
        THEN Exit(0, <<[id |-> request_id, result |-> [ok |-> TRUE]]>>,
                  <<reqlog, log("info", "shutdown requested", request_id)>>)
        ELSE handle_unknown(request_id, method, reqlog)

\* main(), lines 104-147: one line of stdin.
main_line(line) ==
    IF line.raw = "blank" THEN Continue(<<>>, <<>>)
    ELSE IF line.raw = "garbage" THEN handle_invalid_json
    ELSE LET req == line.val IN
         IF ~IsDict(req)
         THEN \* req.get raises AttributeError, which nothing catches
              Exit(1, <<>>, <<Traceback("AttributeError")>>)
         ELSE LET request_id == normalize_id(Get(req, "id"))
                  method == Get(req, "method")
                  params == IF Get(req, "params") = JNull
                            THEN JObj(<<>>) ELSE Get(req, "params")
              IN  IF ~IsStr(method) \/ method.s = ""
                  THEN Continue(<<error_response(request_id, "invalid_request",
                                   "method must be a non-empty string")>>, <<>>)
                  ELSE IF ~IsDict(params)
                  THEN Continue(<<error_response(request_id, "invalid_request",
                                   "params must be an object")>>, <<>>)
                  ELSE dispatch(request_id, method.s, params)

\* respond() and log() of one effect, and the state main() is left in.
Apply(eff, ln) ==
    /\ stdout' = stdout \o eff.out
    /\ stdout_line' = stdout_line \o [i \in 1..Len(eff.out) |-> ln]
    /\ stderr' = stderr \o eff.log
    /\ svc_pc' = eff.pc
    /\ svc_job' = eff.job
    /\ proc_status' = eff.code

\* ServiceStep() as it would be if main() went on reading after an exit
\* request instead of returning.
ServiceStep_no_return ==
    /\ svc_pc \in {"Running", "Exited"}
    /\ svc_pos < Len(stdin)
    /\ svc_pos' = svc_pos + 1
    /\ Apply(main_line(stdin[svc_pos + 1]), svc_pos + 1)
    /\ UNCHANGED <<stdin, stdin_closed, client_vars>>

\* main(): the loop reads the next line of stdin and handles it.  A pass
\* through the loop body is one step; only the sleep of a delayed translate
\* is a state of its own.
ServiceStep ==
    /\ svc_pc = "Running"
    /\ svc_pos < Len(stdin)
    /\ svc_pos' = svc_pos + 1
    /\ Apply(main_line(stdin[svc_pos + 1]), svc_pos + 1)
    /\ UNCHANGED <<stdin, stdin_closed, client_vars>>

\* handle_translate(), lines 85-97: time.sleep() has returned.
ServiceWake ==
    /\ svc_pc = "Sleeping"
    /\ svc_job[1].left = 0
    /\ Apply(Continue(<<translate_result(svc_job[1].request_id,
                                         svc_job[1].params,
                                         translate_delay(svc_job[1].params))>>,
                      <<>>), svc_pos)
    /\ UNCHANGED <<stdin, stdin_closed, svc_pos, client_vars>>

\* main(), lines 149-150: stdin is at end of file.
ServiceEof ==
    /\ svc_pc = "Running"
    /\ svc_pos = Len(stdin)
    /\ stdin_closed
    /\ Apply(Exit(0, <<>>, <<log("info", "stdin closed, exiting", JNull)>>),
             svc_pos)
    /\ UNCHANGED <<stdin, stdin_closed, svc_pos, client_vars>>

(***************************************************************************)
(* e2e_client.py: class SidecarClient                                      *)
(***************************************************************************)

\* asyncio.Future: its state, and its result once set_result() was called.
Pending == [state |-> "PENDING"]
Finished(msg) == [state |-> "FINISHED", result |-> msg]
Cancelled == [state |-> "CANCELLED"]

\* Pop() as it would be if the entry were left in the dict.
Pop_kept(d, key) == d

\* dict.pop(key, None)
Pop(d, key) == [k \in DOMAIN d \ {key} |-> d[k]]

\* next_id() as it would be if the counter were left out of the id.
next_id_unnumbered(n) == "req"

\* _next_id(), the string built from the incremented counter.
next_id(n) == "req-" \o ToString(n)

\* Python truth value of a JSON value.
Truthy(v) ==
    CASE v.t = "null" -> FALSE
      [] v.t = "str" -> v.s # ""
      [] v.t \in {"int", "bool"} -> v.n # 0
      [] v.t = "obj" -> DOMAIN v.f # {}
      [] OTHER -> TRUE

\* send_request(), lines 77-79: the request object.
build_request(req_id, method, params) ==
    IF Truthy(params)
    THEN JObj([id |-> JStr(req_id), method |-> JStr(method),
               params |-> params])
    ELSE JObj([id |-> JStr(req_id), method |-> JStr(method)])

\* effective_timeout() as it would be if the timeout argument were ignored.
effective_timeout_default(timeout) == DefaultTimeoutMs

\* timeout or self.default_timeout
effective_timeout(timeout) ==
    IF timeout = None \/ timeout[1] = 0 THEN DefaultTimeoutMs ELSE timeout[1]

\* is_running as it would be without the look at returncode.
is_running_unchecked == started

\* is_running
is_running == started /\ returncode = None

\* exit_code
exit_code == IF started THEN returncode ELSE None

\* The locals of a call: timeout is the argument of send_request(), timer
\* what is left of the time given to wait_for().
NoCall == [req_id |-> "", method |-> "", params |-> JNull, timeout |-> None,
           timer |-> 0, in_stop |-> FALSE]

\* How a call ended: the exception or "response", the call's own id, method
\* and params, and the response returned.
Ended(kind, c_call, msg) ==
    [kind |-> kind, req_id |-> c_call.req_id, method |-> c_call.method,
     params |-> c_call.params, timeout |-> c_call.timeout, msg |-> msg]

\* start(): spawn the process and create the stdout reader task.  The
\* service logs its start-up line when main() begins.
start ==
    /\ ~started
    /\ svc_pc = "NotStarted"
    /\ started' = TRUE
    /\ reader_pc' = "running"
    /\ svc_pc' = "Running"
    /\ stderr' = Append(stderr, log("info", "mock sidecar service started",
                                    JNull))
    /\ UNCHANGED <<stdin, stdin_closed, svc_pos, svc_job, proc_status, stdout,
                   stdout_line, returncode, pending, request_id_seq, rd_pos,
                   pc, call, outcome>>

\* send_request() from its entry to the wait on the future.  The running
\* check, the id, the registration and the write happen without the task
\* being suspended.  Writing to a process that has exited without the client
\* having noticed either fails in drain() or is lost in the pipe.
send_request_body(c, method, params, timeout, in_stop) ==
    LET req_id == next_id(request_id_seq + 1)
        this == [req_id |-> req_id, method |-> method, params |-> params,
                 timeout |-> timeout,
                 timer |-> effective_timeout(timeout), in_stop |-> in_stop]
    IN  /\ request_id_seq' = request_id_seq + 1
        /\ \/ /\ proc_status = None
              /\ stdin' = Append(stdin,
                                 JsonLine(build_request(req_id, method, params)))
              /\ pending' = (req_id :> Pending) @@ pending
              /\ pc' = [pc EXCEPT ![c] = "waiting"]
              /\ call' = [call EXCEPT ![c] = this]
              /\ UNCHANGED outcome
           \/ /\ proc_status # None
              /\ pending' = (req_id :> Pending) @@ pending
              /\ pc' = [pc EXCEPT ![c] = "waiting"]
              /\ call' = [call EXCEPT ![c] = this]
              /\ UNCHANGED <<stdin, outcome>>
           \/ /\ proc_status # None
              /\ outcome' = [outcome EXCEPT
                               ![c] = Ended("ConnectionResetError", this, JNull)]
              /\ pc' = [pc EXCEPT ![c] = IF in_stop THEN "stop_wait" ELSE "done"]
              /\ call' = [call EXCEPT ![c] =
                            IF in_stop
                            THEN [this EXCEPT !.timer = StopWaitTimeoutMs]
                            ELSE NoCall]
              /\ UNCHANGED <<stdin, pending>>

\* The calls the tasks make: method, params and timeout (None: the default).
TextOf(c) == "msg-" \o ToString(c)
Translate(text, delay) ==
    IF delay = 0
    THEN JObj([text |-> JStr(text), toLang |-> JStr("en")])
    ELSE JObj([text |-> JStr(text), toLang |-> JStr("en"),
               delayMs |-> JInt(delay)])
SampleCalls(c) ==
    { [method |-> "health", params |-> JNull, timeout |-> None],
      [method |-> "translate", params |-> Translate(TextOf(c), 0),
       timeout |-> None],
      [method |-> "translate", params |-> Translate("slow", 2000),
       timeout |-> Some(1000)],
      [method |-> "translate", params |-> Translate(TextOf(c), 1000),
       timeout |-> Some(1000)],
      [method |-> "crash", params |-> JNull, timeout |-> Some(1000)],
      [method |-> "shutdown", params |-> JNull, timeout |-> None] }

\* The calls of test_process_crash, with a delayed translate and a shutdown.
CrashCalls(c) ==
    { [method |-> "health", params |-> JNull, timeout |-> None],
      [method |-> "translate", params |-> Translate(TextOf(c), 2000),
       timeout |-> None],
      [method |-> "crash", params |-> JNull, timeout |-> Some(1000)],
      [method |-> "shutdown", params |-> JNull, timeout |-> None] }

\* Each task makes one call, and the tasks make their calls in the order of
\* their numbers; the calls of earlier tasks may still be in flight.
MayCall(c) == pc[c] = "idle" /\ \A d \in Callers : d < c => pc[d] # "idle"

\* send_request(method, params, timeout) called by task c with the
\* arguments a.
send_request_of(c, a) ==
    /\ IF ~started \/ returncode # None
       THEN /\ outcome' = [outcome EXCEPT ![c] =
                  Ended("RuntimeError",
                        [NoCall EXCEPT !.method = a.method,
                                       !.params = a.params], JNull)]
            /\ pc' = [pc EXCEPT ![c] = "done"]
            /\ UNCHANGED <<stdin, pending, request_id_seq, call>>
       ELSE send_request_body(c, a.method, a.params, a.timeout, FALSE)
    /\ UNCHANGED <<stdin_closed, svc_pos, svc_pc, svc_job, proc_status, stdout,
                   stdout_line, stderr, started, returncode, reader_pc, rd_pos>>

\* Task c makes one of the sample calls.
send_request(c) ==
    /\ MayCall(c)
    /\ \E a \in SampleCalls(c) : send_request_of(c, a)

\* Task c makes one of the calls of the crash test.
send_request_crash(c) ==
    /\ MayCall(c)
    /\ \E a \in CrashCalls(c) : send_request_of(c, a)

\* Calls that are answered, answered after their timeout, never answered, or
\* in flight when the service exits.
WaitCalls(c) ==
    { [method |-> "health", params |-> JNull, timeout |-> None],
      [method |-> "translate", params |-> Translate("slow", 2000),
       timeout |-> Some(1000)],
      [method |-> "crash", params |-> JNull, timeout |-> Some(1000)],
      [method |-> "shutdown", params |-> JNull, timeout |-> None] }

\* Task c makes one of these calls.
send_request_wait(c) ==
    /\ MayCall(c)
    /\ \E a \in WaitCalls(c) : send_request_of(c, a)

\* TimeoutFire() as it would be if the due timeout did not cancel the
\* future.
TimeoutFire_no_cancel(c) ==
    /\ pc[c] = "waiting"
    /\ call[c].timer = 0
    /\ pending[call[c].req_id].state = "PENDING"
    /\ UNCHANGED vars

\* asyncio.wait_for(future, timeout): the timeout is due while the future is
\* still pending; the future is cancelled.
TimeoutFire(c) ==
    /\ pc[c] = "waiting"
    /\ call[c].timer = 0
    /\ pending[call[c].req_id].state = "PENDING"
    /\ pending' = [pending EXCEPT ![call[c].req_id] = Cancelled]
    /\ UNCHANGED <<svc_vars, started, returncode, request_id_seq, reader_pc,
                   rd_pos, pc, call, outcome>>

\* send_request(), lines 89-93: the task wakes up with the future's result
\* or with the timeout, and the finally clause removes the registry entry.
\* Inside stop() either outcome is swallowed and stop() goes on to wait for
\* the process to exit.
Resume(c) ==
    /\ pc[c] = "waiting"
    /\ pending[call[c].req_id].state # "PENDING"
    /\ outcome' = [outcome EXCEPT ![c] =
                     IF pending[call[c].req_id].state = "FINISHED"
                     THEN Ended("response", call[c],
                                pending[call[c].req_id].result)
                     ELSE Ended("TimeoutError", call[c], JNull)]
    /\ pending' = Pop(pending, call[c].req_id)
    /\ pc' = [pc EXCEPT ![c] = IF call[c].in_stop THEN "stop_wait" ELSE "done"]
    /\ call' = [call EXCEPT ![c] =
                  IF call[c].in_stop
                  THEN [call[c] EXCEPT !.timer = StopWaitTimeoutMs]
                  ELSE NoCall]
    /\ UNCHANGED <<svc_vars, started, returncode, request_id_seq, reader_pc,
                   rd_pos>>

\* stop(), lines 108-112: nothing when the process is not running, else the
\* shutdown request.
stop(c) ==
    /\ MayCall(c)
    /\ IF started /\ returncode = None
       THEN send_request_body(c, "shutdown", JNull,
                              Some(StopRequestTimeoutMs), TRUE)
       ELSE /\ outcome' = [outcome EXCEPT
                             ![c] = Ended("stop_noop", NoCall, JNull)]
            /\ pc' = [pc EXCEPT ![c] = "done"]
            /\ UNCHANGED <<stdin, pending, request_id_seq, call>>
    /\ UNCHANGED <<stdin_closed, svc_pos, svc_pc, svc_job, proc_status, stdout,
                   stdout_line, stderr, started, returncode, reader_pc, rd_pos>>

\* stop(), line 114: process.wait() completes, the process has exited.
StopWaitExit(c) ==
    /\ pc[c] = "stop_wait"
    /\ returncode # None
    /\ pc' = [pc EXCEPT ![c] = "done"]
    /\ call' = [call EXCEPT ![c] = NoCall]
    /\ outcome' = [outcome EXCEPT ![c] = Ended("stop_exited", NoCall, JNull)]
    /\ UNCHANGED <<svc_vars, started, returncode, pending, request_id_seq,
                   reader_pc, rd_pos>>

\* StopWaitKill() as it would be if kill() did not wait for the deadline.
StopWaitKill_early(c) ==
    /\ pc[c] = "stop_wait"
    /\ returncode = None
    /\ IF proc_status = None
       THEN /\ proc_status' = Some(0 - SIGKILL)
            /\ svc_pc' = "Exited"
            /\ svc_job' = None
       ELSE UNCHANGED <<proc_status, svc_pc, svc_job>>
    /\ pc' = [pc EXCEPT ![c] = "done"]
    /\ call' = [call EXCEPT ![c] = NoCall]
    /\ outcome' = [outcome EXCEPT ![c] = Ended("stop_killed", NoCall, JNull)]
    /\ UNCHANGED <<stdin, stdin_closed, svc_pos, stdout, stdout_line, stderr,
                   started, returncode, pending, request_id_seq, reader_pc,
                   rd_pos>>

\* stop(), lines 115-116: the wait timed out, kill().  SIGKILL ends a live
\* process and does nothing to one that has already exited.
StopWaitKill(c) ==
    /\ pc[c] = "stop_wait"
    /\ returncode = None
    /\ call[c].timer = 0
    /\ IF proc_status = None
       THEN /\ proc_status' = Some(0 - SIGKILL)
            /\ svc_pc' = "Exited"
            /\ svc_job' = None
       ELSE UNCHANGED <<proc_status, svc_pc, svc_job>>
    /\ pc' = [pc EXCEPT ![c] = "done"]
    /\ call' = [call EXCEPT ![c] = NoCall]
    /\ outcome' = [outcome EXCEPT ![c] = Ended("stop_killed", NoCall, JNull)]
    /\ UNCHANGED <<stdin, stdin_closed, svc_pos, stdout, stdout_line, stderr,
                   started, returncode, pending, request_id_seq, reader_pc,
                   rd_pos>>

\* The event loop learns that the process has exited: returncode is set.
ProcessExited ==
    /\ started
    /\ proc_status # None
    /\ returncode = None
    /\ returncode' = proc_status
    /\ UNCHANGED <<svc_vars, started, pending, request_id_seq, reader_pc,
                   rd_pos, pc, call, outcome>>

\* _read_stdout(), lines 50-56, for one line: the registry after it, or
\* "raise" when the line makes the loop raise an exception other than
\* json.JSONDecodeError.  A line is a response object, or text that is not
\* JSON ("garbage"), or a JSON value that is not an object.
IsResponse(line) == "id" \in DOMAIN line

\* route() as it would be if a response were handed to a waiting request
\* without looking at its id.
route_fifo(line, reg) ==
    LET waiting == {k \in DOMAIN reg : reg[k].state = "PENDING"} IN
    IF IsResponse(line) /\ waiting # {}
    THEN LET first == CHOOSE k \in waiting : TRUE
         IN  [raise |-> FALSE, reg |-> [reg EXCEPT ![first] = Finished(line)]]
    ELSE [raise |-> FALSE, reg |-> reg]

route(line, reg) ==
    IF ~IsResponse(line)
    THEN IF line.raw = "garbage" THEN [raise |-> FALSE, reg |-> reg]
         ELSE [raise |-> TRUE, reg |-> reg]
    ELSE LET req_id == line.id IN
         IF Truthy(req_id) /\ IsStr(req_id) /\ req_id.s \in DOMAIN reg
         THEN IF reg[req_id.s].state = "PENDING"
              THEN [raise |-> FALSE,
                    reg |-> [reg EXCEPT ![req_id.s] = Finished(line)]]
              ELSE [raise |-> TRUE, reg |-> reg]
         ELSE IF Truthy(req_id) /\ req_id.t \in {"array", "obj"}
         THEN [raise |-> TRUE, reg |-> reg]   \* unhashable key: TypeError
         ELSE [raise |-> FALSE, reg |-> reg]

\* _read_stdout(): one iteration of the loop on a line of stdout.
ReaderStep ==
    /\ reader_pc = "running"
    /\ rd_pos < Len(stdout)
    /\ rd_pos' = rd_pos + 1
    /\ pending' = route(stdout[rd_pos + 1], pending).reg
    /\ reader_pc' = IF route(stdout[rd_pos + 1], pending).raise
                    THEN "failed" ELSE "running"
    /\ UNCHANGED <<svc_vars, started, returncode, request_id_seq, pc, call,
                   outcome>>

\* _read_stdout(), lines 47-49: readline() returns b"" at end of file.
ReaderEof ==
    /\ reader_pc = "running"
    /\ rd_pos = Len(stdout)
    /\ proc_status # None
    /\ reader_pc' = "done"
    /\ UNCHANGED <<svc_vars, started, returncode, pending, request_id_seq,
                   rd_pos, pc, call, outcome>>

(***************************************************************************)
(* e2e_ipc.py: the harness that writes raw lines to the service            *)
(***************************************************************************)

\* spawn_service(): the service process alone, without a SidecarClient.
spawn_service ==
    /\ ~started
    /\ svc_pc = "NotStarted"
    /\ svc_pc' = "Running"
    /\ stderr' = Append(stderr, log("info", "mock sidecar service started",
                                    JNull))
    /\ UNCHANGED <<stdin, stdin_closed, svc_pos, svc_job, proc_status, stdout,
                   stdout_line, client_vars>>

\* A request line as the harness's send_request() builds it.
Req(id, method, params) ==
    JsonLine(JObj([id |-> id, method |-> method, params |-> params]))

\* The lines the harness writes.
SampleLines ==
    {BlankLine, GarbageLine}
    \cup {JsonLine(v) : v \in {JNull, JInt(7), JStr("x"), JArr}}
    \cup {Req(JStr("a"), m, JNull) : m \in {JNull, JStr(""), JInt(1)}}
    \cup {Req(JStr("a"), JStr("health"), JArr),
          Req(JInt(5), JStr("translate"), JStr("x"))}
    \cup {Req(i, JStr(m), JObj(<<>>)) :
            i \in {JStr("a"), JInt(5)},
            m \in {"health", "crash", "shutdown", "__unknown__"}}
    \cup {Req(JStr("b"), JStr("translate"),
              JObj([text |-> t, toLang |-> l])) :
            t \in {JNull, JStr(""), JStr("hello")},
            l \in {JStr(""), JStr("zh"), JInt(1)}}
    \cup {Req(JStr("b"), JStr("translate"),
              JObj([text |-> JStr("hello"), toLang |-> JStr("zh"),
                    delayMs |-> d, fromLang |-> JStr("en")])) :
            d \in {JInt(1000), JInt(0), JBool(TRUE), JStr("1000")}}

\* A smaller choice of lines: requests of each method the service knows, one
\* line that is not JSON and one that is JSON but not an object.
RequestLines ==
    {GarbageLine, JsonLine(JArr)}
    \cup {Req(JStr("a"), JStr(m), JObj(<<>>)) :
            m \in {"health", "crash", "shutdown"}}
    \cup {Req(JInt(5), JStr("health"), JNull)}
    \cup {Req(JStr("b"), JStr("translate"),
              JObj([text |-> JStr("hello"), toLang |-> l])) :
            l \in {JStr(""), JStr("zh")}}
    \cup {Req(JStr("b"), JStr("translate"),
              JObj([text |-> JStr("hello"), toLang |-> JStr("zh"),
                    delayMs |-> JInt(1000), fromLang |-> JStr("en")]))}

\* send_line(): one line, taken from lines, on the service's stdin.
send_line_of(lines) ==
    /\ ~started
    /\ svc_pc # "NotStarted"
    /\ proc_status = None
    /\ ~stdin_closed
    /\ Len(stdin) < MaxLines
    /\ \E line \in lines : stdin' = Append(stdin, line)
    /\ UNCHANGED <<stdin_closed, svc_pos, svc_pc, svc_job, proc_status, stdout,
                   stdout_line, stderr, client_vars>>

send_line == send_line_of(SampleLines)

\* The writing end of the service's stdin is closed.
CloseStdin ==
    /\ ~started
    /\ svc_pc # "NotStarted"
    /\ ~stdin_closed
    /\ stdin_closed' = TRUE
    /\ UNCHANGED <<stdin, svc_pos, svc_pc, svc_job, proc_status, stdout,
                   stdout_line, stderr, client_vars>>

(***************************************************************************)
(* A sidecar that answers its requests concurrently                        *)
(***************************************************************************)

\* start() with an executable that is not the mock service.
start_peer ==
    /\ ~started
    /\ svc_pc = "NotStarted"
    /\ started' = TRUE
    /\ reader_pc' = "running"
    /\ svc_pc' = "Concurrent"
    /\ UNCHANGED <<stdin, stdin_closed, svc_pos, svc_job, proc_status, stdout,
                   stdout_line, stderr, returncode, pending, request_id_seq,
                   rd_pos, pc, call, outcome>>

\* The calls of test_concurrent_requests, with and without a timeout.
ConcurrentCalls(c) ==
    { [method |-> "translate", params |-> Translate(TextOf(c), 0),
       timeout |-> t] : t \in {None, Some(1000)} }

\* Task c makes one of these calls.
send_request_concurrent(c) ==
    /\ MayCall(c)
    /\ \E a \in ConcurrentCalls(c) : send_request_of(c, a)

\* The responses of the mock service to one request, without the delay.
Undelayed(eff) ==
    IF eff.pc = "Sleeping"
    THEN Continue(<<translate_result(eff.job[1].request_id, eff.job[1].params,
                                     translate_delay(eff.job[1].params))>>,
                  eff.log)
    ELSE eff

\* The peer answers one of the requests it has received and not answered,
\* whatever the order in which they were sent, after any latency.
PeerRespond ==
    /\ svc_pc = "Concurrent"
    /\ \E i \in 1..Len(stdin) :
         /\ \A j \in 1..Len(stdout_line) : stdout_line[j] # i
         /\ Undelayed(main_line(stdin[i])).out # <<>>
         /\ Apply([Undelayed(main_line(stdin[i])) EXCEPT
                     !.pc = IF @ = "Running" THEN "Concurrent" ELSE @], i)
    /\ UNCHANGED <<stdin, stdin_closed, svc_pos, client_vars>>

(***************************************************************************)
(* Time                                                                    *)
(***************************************************************************)

\* The service has a line to read or a sleep to return from.
ServiceReady ==
    \/ svc_pc = "Running" /\ (svc_pos < Len(stdin) \/ stdin_closed)
    \/ svc_pc = "Sleeping" /\ svc_job[1].left = 0

\* A callback of the client's event loop is ready to run.
LoopReady ==
    \/ reader_pc = "running" /\ (rd_pos < Len(stdout) \/ proc_status # None)
    \/ started /\ proc_status # None /\ returncode = None
    \/ \E c \in Callers :
         \/ pc[c] = "waiting" /\ call[c].timer = 0
         \/ pc[c] = "waiting" /\ pending[call[c].req_id].state # "PENDING"
         \/ pc[c] = "stop_wait" /\ (call[c].timer = 0 \/ returncode # None)

\* A timer is running.
TimerRunning ==
    \/ svc_pc = "Sleeping" /\ svc_job[1].left > 0
    \/ \E c \in Callers : pc[c] \in {"waiting", "stop_wait"} /\ call[c].timer > 0

\* TickMs milliseconds pass.  Time advances only when the service and the
\* client's event loop are both blocked: what is ready runs within the tick,
\* in any order, and a due timeout fires before any later response is read.
Tick ==
    /\ ~LoopReady
    /\ ~ServiceReady
    /\ TimerRunning
    /\ svc_job' = IF svc_pc = "Sleeping"
                  THEN Some([svc_job[1] EXCEPT
                               !.left = Max(0, svc_job[1].left - TickMs)])
                  ELSE svc_job
    /\ call' = [c \in Callers |->
                  IF pc[c] \in {"waiting", "stop_wait"}
                  THEN [call[c] EXCEPT !.timer = Max(0, call[c].timer - TickMs)]
                  ELSE call[c]]
    /\ UNCHANGED <<stdin, stdin_closed, svc_pos, svc_pc, proc_status, stdout,
                   stdout_line, stderr, started, returncode, pending,
                   request_id_seq, reader_pc, rd_pos, pc, outcome>>

(***************************************************************************)
(* Specifications                                                          *)
(***************************************************************************)
Init ==
    /\ stdin = <<>>
    /\ stdin_closed = FALSE
    /\ svc_pos = 0
    /\ svc_pc = "NotStarted"
    /\ svc_job = None
    /\ proc_status = None
    /\ stdout = <<>>
    /\ stdout_line = <<>>
    /\ stderr = <<>>
    /\ started = FALSE
    /\ returncode = None
    /\ pending = <<>>
    /\ request_id_seq = 0
    /\ reader_pc = "none"
    /\ rd_pos = 0
    /\ pc = [c \in Callers |-> "idle"]
    /\ call = [c \in Callers |-> NoCall]
    /\ outcome = [c \in Callers |-> Ended("none", NoCall, JNull)]

\* SidecarClient with the mock service as its process.
Next ==
    \/ start
    \/ \E c \in Callers : send_request(c)
    \/ \E c \in Callers : TimeoutFire(c)
    \/ \E c \in Callers : Resume(c)
    \/ \E c \in Callers : stop(c)
    \/ \E c \in Callers : StopWaitExit(c)
    \/ \E c \in Callers : StopWaitKill(c)
    \/ ProcessExited
    \/ ReaderStep
    \/ ReaderEof
    \/ ServiceStep
    \/ ServiceWake
    \/ Tick

Spec == Init /\ [][Next]_vars

\* The mock service fed by the raw-line harness.
SvcNext ==
    \/ spawn_service
    \/ send_line
    \/ CloseStdin
    \/ ServiceStep
    \/ ServiceWake
    \/ ServiceEof
    \/ Tick

SvcSpec == Init /\ [][SvcNext]_vars

\* SidecarClient with a sidecar that answers in any order.
PeerNext ==
    \/ start_peer
    \/ \E c \in Callers : send_request_concurrent(c)
    \/ \E c \in Callers : TimeoutFire(c)
    \/ \E c \in Callers : Resume(c)
    \/ ReaderStep
    \/ PeerRespond
    \/ Tick

PeerSpec == Init /\ [][PeerNext]_vars

\* The client with the mock service, making the calls of the crash test,
\* where the event loop gets to run the callback that records the exit of
\* the process.
CrashNext ==
    \/ start
    \/ \E c \in Callers : send_request_crash(c)
    \/ \E c \in Callers : TimeoutFire(c)
    \/ \E c \in Callers : Resume(c)
    \/ \E c \in Callers : stop(c)
    \/ \E c \in Callers : StopWaitExit(c)
    \/ \E c \in Callers : StopWaitKill(c)
    \/ ProcessExited
    \/ ReaderStep
    \/ ReaderEof
    \/ ServiceStep
    \/ ServiceWake
    \/ Tick

CrashSpec == Init /\ [][CrashNext]_vars /\ WF_vars(ProcessExited)

\* The mock service fed request lines by the harness, where the service
\* process keeps being scheduled and time passes.
SvcFairNext ==
    \/ spawn_service
    \/ send_line_of(RequestLines)
    \/ CloseStdin
    \/ ServiceStep
    \/ ServiceWake
    \/ ServiceEof
    \/ Tick

SvcFairSpec ==
    /\ Init /\ [][SvcFairNext]_vars
    /\ WF_vars(ServiceStep) /\ WF_vars(ServiceWake) /\ WF_vars(Tick)

\* The event loop runs one of the callbacks that are ready: a timeout that
\* is due, a task whose future is done, the exit of the process, a line or
\* the end of stdout.
LoopStep ==
    \/ \E c \in Callers : TimeoutFire(c)
    \/ \E c \in Callers : Resume(c)
    \/ ProcessExited
    \/ ReaderStep
    \/ ReaderEof

\* The client with the mock service, where the event loop runs a callback
\* whenever one is ready, the service process is scheduled and time passes.
WaitNext ==
    \/ start
    \/ \E c \in Callers : send_request_wait(c)
    \/ LoopStep
    \/ ServiceStep
    \/ ServiceWake
    \/ Tick

WaitSpec ==
    /\ Init /\ [][WaitNext]_vars
    /\ WF_vars(LoopStep) /\ WF_vars(ServiceStep \/ ServiceWake) /\ WF_vars(Tick)

(***************************************************************************)
(* Properties                                                              *)
(***************************************************************************)

\* C1: every send_request call that returns a response returns the response
\* whose id is the id allocated for that call, and for translate a
\* translatedText built from that call's own text and toLang; no future is
\* resolved with a response addressed to another request, whatever the order
\* in which the peer answers.
C1_ResponseRoutedById ==
    /\ \A c \in Callers :
         outcome[c].kind = "response" =>
           /\ outcome[c].msg.id = JStr(outcome[c].req_id)
           /\ (outcome[c].method = "translate"
                 /\ "result" \in DOMAIN outcome[c].msg) =>
                outcome[c].msg.result.translatedText =
                  "[" \o Get(outcome[c].params, "toLang").s \o "] "
                      \o Get(outcome[c].params, "text").s
    /\ \A k \in DOMAIN pending :
         pending[k].state = "FINISHED" => pending[k].result.id = JStr(k)

\* Two calls have both returned their responses although the peer answered
\* the later call first.
C1_OutOfOrderWitness ==
    \E c, d \in Callers :
      /\ c < d
      /\ outcome[c].kind = "response"
      /\ outcome[d].kind = "response"
      /\ \E i, j \in 1..Len(stdout) :
           /\ i < j
           /\ stdout[i].id = JStr(outcome[d].req_id)
           /\ stdout[j].id = JStr(outcome[c].req_id)

(***************************************************************************)
(* Properties of the service.  They speak of the lines of stdin by their   *)
(* position: line i has been handled once the service has read it and is   *)
(* not sleeping in its translate delay.                                    *)
(***************************************************************************)
Handled(i) == i <= svc_pos /\ ~(svc_pc = "Sleeping" /\ i = svc_pos)

\* The line parses as a JSON object.
IsObjectLine(line) == line.raw = "json" /\ line.val.t = "obj"

\* The line is a JSON object that passes the method and params validation.
Validated(line) ==
    /\ IsObjectLine(line)
    /\ Get(line.val, "method").t = "str"
    /\ Get(line.val, "method").s # ""
    /\ Get(line.val, "params").t \in {"null", "obj"}

MethodOf(line) == Get(line.val, "method").s

\* The id a response to the line carries: the request's id when it is a
\* string, null otherwise.
IdOf(line) ==
    IF Get(line.val, "id").t = "str" THEN Get(line.val, "id") ELSE JNull

\* The positions in stdout of the responses written for line i.
ResponsesTo(i) == {j \in 1..Len(stdout) : stdout_line[j] = i}

C5_ShutdownAnsweredThenExit ==
    /\ \A i \in 1..svc_pos :
         (Validated(stdin[i]) /\ MethodOf(stdin[i]) = "shutdown") =>
           /\ ResponsesTo(i) = {Len(stdout)}
           /\ stdout[Len(stdout)] =
                [id |-> IdOf(stdin[i]), result |-> [ok |-> TRUE]]
           /\ svc_pc = "Exited"
           /\ proc_status = Some(0)
    /\ (proc_status # None /\ svc_pos > 0 /\ Validated(stdin[svc_pos])
          /\ MethodOf(stdin[svc_pos]) = "shutdown") => ResponsesTo(svc_pos) # {}

\* A shutdown request, read after another request, was answered and the
\* process has ended.
C5_Witness ==
    /\ svc_pos = 2
    /\ Validated(stdin[2]) /\ MethodOf(stdin[2]) = "shutdown"
    /\ proc_status = Some(0)
    /\ Len(stdout) = 2

\* C7 as claimed: the service leaves Running only by reading a shutdown or a
\* crash request or at the end of its input.
C7_Original ==
    [][(svc_pc = "Running" /\ svc_pc' = "Exited") =>
         \/ /\ svc_pos' = svc_pos + 1
            /\ Validated(stdin[svc_pos'])
            /\ MethodOf(stdin[svc_pos']) \in {"shutdown", "crash"}
         \/ /\ svc_pos' = svc_pos
            /\ svc_pos = Len(stdin)
            /\ stdin_closed]_vars

C9_MethodNotFound ==
    \A i \in 1..svc_pos :
      (Validated(stdin[i]) /\ MethodOf(stdin[i]) \notin
         {"health", "translate", "shutdown", "crash"}) =>
        /\ \E j \in 1..Len(stdout) :
             /\ ResponsesTo(i) = {j}
             /\ stdout[j].id = IdOf(stdin[i])
             /\ "error" \in DOMAIN stdout[j]
             /\ stdout[j].error.code = "method_not_found"
             /\ "result" \notin DOMAIN stdout[j]
        /\ (i = svc_pos /\ ~stdin_closed) => svc_pc = "Running"

\* Requests with an unknown method, one with a string id and one with a
\* number as id, have been answered.
C9_Witness ==
    /\ svc_pos = 2
    /\ \A i \in {1, 2} : Validated(stdin[i]) /\ MethodOf(stdin[i]) = "__unknown__"
    /\ Get(stdin[1].val, "id") = JInt(5)
    /\ Get(stdin[2].val, "id") = JStr("a")
    /\ Len(stdout) = 2

\* The text and toLang arguments of a translate request are both non-empty
\* strings.
TranslateArgsOk(line) ==
    LET p == Get(line.val, "params") IN
    /\ p.t = "obj"
    /\ Get(p, "text").t = "str" /\ Get(p, "text").s # ""
    /\ Get(p, "toLang").t = "str" /\ Get(p, "toLang").s # ""

DelayOf(params) ==
    IF params.t = "obj" /\ Get(params, "delayMs").t = "int"
    THEN Get(params, "delayMs").n ELSE 0

\* A translate call whose delay exceeds the timeout passed to send_request.
SlowCall(o) ==
    /\ o.method = "translate"
    /\ o.timeout # None
    /\ o.timeout[1] > 0
    /\ DelayOf(o.params) > o.timeout[1]

\* The ids allocated to such calls, in flight or ended.
SlowIds ==
    {call[c].req_id : c \in {x \in Callers : SlowCall(call[x])}}
    \cup {outcome[c].req_id : c \in {x \in Callers : SlowCall(outcome[x])}}

\* The request with this id was written to the service's stdin.
Sent(req_id) ==
    \E i \in 1..Len(stdin) :
      IsObjectLine(stdin[i]) /\ Get(stdin[i].val, "id") = JStr(req_id)

\* C3: a translate call whose delay exceeds its timeout never returns a
\* response; when its request was written to the service it ends with
\* TimeoutError; and the response the service writes for its id is never put
\* into a future nor returned by any call.
C3_SlowCallTimesOut ==
    /\ \A c \in Callers :
         SlowCall(outcome[c]) =>
           /\ outcome[c].kind # "response"
           /\ Sent(outcome[c].req_id) => outcome[c].kind = "TimeoutError"
    /\ \A c \in Callers :
         outcome[c].kind = "response" => outcome[c].msg.id.s \notin SlowIds
    /\ \A k \in DOMAIN pending :
         pending[k].state = "FINISHED" => pending[k].result.id.s \notin SlowIds

\* A slow call has ended with TimeoutError, the service has then written the
\* response for its id, the reader has read it, and a later call has returned
\* its own response.
C3_Witness ==
    \E c, d \in Callers :
      /\ c < d
      /\ SlowCall(outcome[c])
      /\ outcome[c].kind = "TimeoutError"
      /\ \E j \in 1..rd_pos : stdout[j].id = JStr(outcome[c].req_id)
      /\ outcome[d].kind = "response"
      /\ reader_pc = "running"

\* A crash request has been handled by the service.
CrashHandled ==
    \E i \in 1..svc_pos : Validated(stdin[i]) /\ MethodOf(stdin[i]) = "crash"

\* C4: once the service has handled a crash request there is no response
\* line for it and the process has ended with exit status 2; from then on
\* the client's returncode is unset or 2, and eventually is_running is false
\* and exit_code is 2.
C4_CrashExitsWithTwo ==
    /\ [](\A i \in 1..svc_pos :
            (Validated(stdin[i]) /\ MethodOf(stdin[i]) = "crash") =>
              /\ ResponsesTo(i) = {}
              /\ svc_pc = "Exited"
              /\ proc_status = Some(2)
              /\ returncode \in {None, Some(2)})
    /\ (CrashHandled ~> (~is_running /\ exit_code = Some(2)))

\* The client has seen the exit of a process that handled a crash request.
C4_Witness == CrashHandled /\ ~is_running /\ exit_code = Some(2)

\* Line i is a request and a response carrying its id has been written.
Answered(i) ==
    /\ i <= Len(stdin)
    /\ IsObjectLine(stdin[i])
    /\ \E j \in ResponsesTo(i) : stdout[j].id = IdOf(stdin[i])

SendRequestStep(c) ==
    /\ pc[c] = "idle"
    /\ pc'[c] \in {"waiting", "done"}
    /\ ~call'[c].in_stop
    /\ outcome'[c].kind # "stop_noop"

\* C11 as claimed: a send_request call made while the process was never
\* started or has exited ends with the not-running error and leaves stdin,
\* the request id counter and the pending registry as they were.
C11_Original ==
    [][\A c \in Callers :
         (SendRequestStep(c) /\ (~started \/ proc_status # None)) =>
           /\ outcome'[c].kind = "RuntimeError"
           /\ UNCHANGED <<stdin, request_id_seq, pending>>]_vars

\* Task c calls stop() in this step.
StopStep(c) ==
    /\ pc[c] = "idle"
    /\ pc'[c] # "idle"
    /\ outcome'[c].kind = "stop_noop" \/ call'[c].in_stop

\* C12 as claimed: a stop() call made while the process was never started or
\* has exited returns at once without a shutdown request and without kill,
\* and leaves the pending registry, the request id counter and the exit code
\* as they were.
C12_Original ==
    [][\A c \in Callers :
         (StopStep(c) /\ (~started \/ proc_status # None)) =>
           /\ outcome'[c].kind = "stop_noop"
           /\ UNCHANGED <<stdin, pending, request_id_seq, returncode,
                          proc_status>>]_vars

\* The request ids task c has been given: that of its call in flight and
\* that of its ended call.
IdsOf(c) == {call[c].req_id, outcome[c].req_id} \ {""}

\* The ids of the requests the client has written to stdin.
WrittenId(i) ==
    IF IsObjectLine(stdin[i]) THEN Get(stdin[i].val, "id") ELSE JNull

\* C13: the ids given to the calls of different tasks are different, no two
\* request lines written by the client carry the same id, and a call that
\* registers its future does so under an id that has no entry in the pending
\* registry.
C13_UniqueRequestIds ==
    /\ [](/\ \A c, d \in Callers : c # d => IdsOf(c) \cap IdsOf(d) = {}
          /\ \A i, j \in 1..Len(stdin) : i # j => WrittenId(i) # WrittenId(j))
    /\ [][\A c \in Callers :
            (pc[c] = "idle" /\ pc'[c] = "waiting") =>
              /\ call'[c].req_id \notin DOMAIN pending
              /\ call'[c].req_id \in DOMAIN pending'
              /\ \A k \in DOMAIN pending : pending'[k] = pending[k]]_vars

\* Two calls are waiting at the same time after an earlier call has ended,
\* each with an id of its own.
C13_Witness ==
    \E c, d, e \in Callers :
      /\ c # d /\ c # e /\ d # e
      /\ outcome[c].req_id # ""
      /\ pc[d] = "waiting" /\ pc[e] = "waiting"
      /\ Cardinality({outcome[c].req_id, call[d].req_id, call[e].req_id}) = 3
      /\ {call[d].req_id, call[e].req_id} \subseteq DOMAIN pending

\* The ids of the calls that have registered and not yet ended.
InFlightIds == {call[c].req_id : c \in {x \in Callers : pc[x] = "waiting"}}

\* C14: the pending registry holds exactly the ids of the calls that have
\* registered and not yet ended; the id of an ended call is not in it; and an
\* entry leaves the registry only in the step in which its call ends, with a
\* response or with TimeoutError.
C14_RegistryIsInFlightCalls ==
    /\ [](/\ DOMAIN pending = InFlightIds
          /\ \A c \in Callers : outcome[c].req_id \notin DOMAIN pending)
    /\ [][\A k \in DOMAIN pending \ DOMAIN pending' :
            \E c \in Callers :
              /\ pc[c] = "waiting" /\ call[c].req_id = k
              /\ pc'[c] # "waiting"
              /\ outcome'[c].req_id = k
              /\ outcome'[c].kind \in {"response", "TimeoutError"}]_vars

\* One call has returned its response, one has ended with TimeoutError, and
\* a third is waiting with the only entry of the registry.
C14_Witness ==
    \E c, d, e \in Callers :
      /\ outcome[c].kind = "response"
      /\ outcome[d].kind = "TimeoutError"
      /\ pc[e] = "waiting"
      /\ DOMAIN pending = {call[e].req_id}

\* Time passes in this step: a running timer of a task goes down.
TimePasses == pc' = pc /\ \E c \in Callers : call'[c].timer < call[c].timer

\* C15 as claimed: a call does not stay suspended while time passes once the
\* exit of the process has been recorded; the exit ends it.
C15_Original ==
    [][TimePasses =>
         \A c \in Callers : pc[c] = "waiting" => returncode = None]_vars

(***************************************************************************)
(* Properties of the service's two output channels                         *)
(***************************************************************************)

\* The line is a response object: an id and exactly one of result and error.
IsResponseLine(line) ==
    /\ "id" \in DOMAIN line
    /\ ("result" \in DOMAIN line) # ("error" \in DOMAIN line)
    /\ "level" \notin DOMAIN line

\* The line is a log entry as log() builds it.
IsLogLine(line) ==
    /\ {"level", "msg", "subsystem"} \subseteq DOMAIN line
    /\ DOMAIN line \cap {"id", "result", "error"} = {}

\* C16 as claimed: every line on stdout is a response object with an id and
\* exactly one of result and error, and every line on stderr is a log entry.
C16_Original ==
    /\ \A j \in 1..Len(stdout) : IsResponseLine(stdout[j])
    /\ \A j \in 1..Len(stderr) : IsLogLine(stderr[j])

(***************************************************************************)
(* Properties of stop()                                                    *)
(***************************************************************************)

\* Task c's stop() calls kill() in this step.
KillStep(c) == outcome[c].kind # "stop_killed" /\ outcome'[c].kind = "stop_killed"

\* C17: stop() calls kill() only when its shutdown request has ended (with a
\* response, a timeout or a write failure), the wait that follows was given
\* StopWaitTimeoutMs and has run out, and no exit has been recorded; a
\* process is killed only by such a step; a stop() that sees the exit during
\* its wait returns without kill; and kill() leaves the exit status of a
\* process that has already exited as it was.
C17_KillOnlyAfterShutdownAndWait ==
    /\ [][\A c \in Callers :
            KillStep(c) =>
              /\ pc[c] = "stop_wait"
              /\ call[c].timer = 0
              /\ returncode = None
              /\ outcome[c].method = "shutdown"
              /\ outcome[c].kind \in
                   {"response", "TimeoutError", "ConnectionResetError"}
              /\ outcome[c].req_id \notin DOMAIN pending]_vars
    /\ [][\A c \in Callers :
            (pc[c] # "stop_wait" /\ pc'[c] = "stop_wait") =>
              call'[c].timer = StopWaitTimeoutMs]_vars
    /\ [][(proc_status' # proc_status /\ proc_status' = Some(0 - SIGKILL)) =>
            \E c \in Callers : KillStep(c)]_vars
    /\ [][\A c \in Callers :
            (pc[c] = "stop_wait" /\ returncode # None /\ pc'[c] # "stop_wait")
              => outcome'[c].kind = "stop_exited"]_vars
    /\ [][proc_status # None => proc_status' = proc_status]_vars

\* A stop() has gone through the shutdown request and the wait and has
\* killed the process.
C17_Witness ==
    \E c \in Callers :
      outcome[c].kind = "stop_killed" /\ proc_status = Some(0 - SIGKILL)

(***************************************************************************)
(* Properties of the service's exit                                        *)
(***************************************************************************)

\* Line i is a request to shut down or to crash that the service has read.
ExitRequestRead(i) ==
    /\ i <= svc_pos
    /\ Validated(stdin[i])
    /\ MethodOf(stdin[i]) \in {"shutdown", "crash"}

\* C18: once the service has read a shutdown or crash request it has exited,
\* that request is the last line it has read, no line behind it has a
\* response, and from then on the service reads and writes nothing more.
C18_ExitingIsTerminal ==
    /\ [](\A i \in 1..Len(stdin) :
            ExitRequestRead(i) =>
              /\ svc_pc = "Exited"
              /\ svc_pos = i
              /\ \A k \in (i + 1)..Len(stdin) : ResponsesTo(k) = {})
    /\ [][svc_pc = "Exited" =>
            UNCHANGED <<svc_pc, svc_pos, stdout, stdout_line, stderr,
                        proc_status>>]_vars

\* A request is queued on stdin behind a shutdown or crash request that the
\* service has read.
C18_Witness ==
    \E i \in 1..Len(stdin) :
      /\ ExitRequestRead(i)
      /\ i < Len(stdin)
      /\ Validated(stdin[i + 1])
      /\ MethodOf(stdin[i + 1]) \in {"health", "translate"}
      /\ stdin_closed

(***************************************************************************)
(* Properties of the stdout reader                                         *)
(***************************************************************************)

\* C19 as claimed: no line of stdout makes the reader loop end; it ends only
\* at end of file.
C19_Original == reader_pc # "failed"

\* C20 as claimed: once a stop() has returned, after the process exited
\* during its wait or after kill(), is_running is false and exit_code is set.
C20_Original ==
    \A c \in Callers :
      outcome[c].kind \in {"stop_exited", "stop_killed"} =>
        ~is_running /\ exit_code # None

\* The send_request call of task c has completed: it returned a response or
\* raised the timeout.
Completed(c) ==
    /\ pc[c] # "waiting"
    /\ outcome[c].kind \in {"response", "TimeoutError"}

\* C21: every send_request call that has started waiting on its future
\* eventually completes, by returning a response or by raising, whether the
\* peer answers, stays silent, is delayed, crashes or shuts down.
C21_WaitingCallCompletes ==
    \A c \in Callers : (pc[c] = "waiting") ~> Completed(c)

\* A call of the crash method has raised the timeout after the service
\* exited without answering it, and another call has returned a response.
C21_Witness ==
    \E c, d \in Callers :
        /\ Completed(c)
        /\ outcome[c].kind = "TimeoutError"
        /\ outcome[c].method = "crash"
        /\ proc_status = Some(2)
        /\ outcome[d].kind = "response"

\* The response the service owes to line i of stdin, as a sequence: empty
\* when the line gets none.
ResponseOwed(i) ==
    LET eff == main_line(stdin[i]) IN
    IF eff.job # None
    THEN <<translate_result(eff.job[1].request_id, eff.job[1].params,
                            translate_delay(eff.job[1].params))>>
    ELSE eff.out

\* A translate request with a delay has been read as line i.
DelayedRequest(i) ==
    /\ i <= svc_pos
    /\ main_line(stdin[i]).job # None

\* C22: the service handles one request at a time: the response lines are
\* written in the order in which their request lines were read, each is the
\* response to its request, a response is written only when every request
\* read earlier has had its response, and while the service sleeps in the
\* delay of a translate request neither that request nor any later one is
\* answered and no further line is read.
C22_ResponsesInReadOrder ==
    /\ [](/\ \A j, k \in 1..Len(stdout) :
               j < k => stdout_line[j] < stdout_line[k]
          /\ \A k \in 1..Len(stdout) :
               /\ stdout_line[k] <= svc_pos
               /\ ResponseOwed(stdout_line[k]) = <<stdout[k]>>
               /\ \A i \in 1..(stdout_line[k] - 1) :
                    ResponseOwed(i) # <<>> =>
                        \E j \in 1..(k - 1) : stdout_line[j] = i
          /\ svc_pc = "Sleeping" =>
                /\ DelayedRequest(svc_pos)
                /\ \A k \in 1..Len(stdout) : stdout_line[k] < svc_pos)
    /\ [][svc_pc = "Sleeping" =>
            svc_pos' = svc_pos /\ Len(stdout') <= Len(stdout) + 1]_vars

\* A delayed translate request and the request read after it have both been
\* answered, the delayed one first.
C22_Witness ==
    /\ Len(stdin) >= 2
    /\ DelayedRequest(1)
    /\ svc_pos = 2
    /\ Len(stdout) = 2
    /\ stdout_line = <<1, 2>>

====
